---- MODULE Spec2Model ----
(***************************************************************************)
(* wasm-ql query host of history-tools: the fork-aware retry loop          *)
(* (retry_loop, query, legacy_query, did_fork), the host-call bridge       *)
(* (callbacks) and the guest it runs, over a history database that an      *)
(* ingesting process extends and forks concurrently.                       *)
(***************************************************************************)
EXTENDS Integers, Sequences, FiniteSets, TLC

(***************************************************************************)
(* Bounds of the model.                                                    *)
(***************************************************************************)
\* highest block number the database reaches
MaxHead == 1
\* guest steps (stores and host calls) per run_query() call of the shorter modules
MaxGuestSteps == 1
\* nesting depth of host calls made from inside a cb_alloc callback
MaxCbDepth == 1
\* bytes of guest linear memory beyond the size of the database_status blob
MemSlack == 1
\* lowest guest addresses the guest stores to
GuestDataLen == 1
\* largest value of a key word
KeyMax == 1

(***************************************************************************)
(* Program constants.                                                      *)
(***************************************************************************)
\* retry_loop: if (++num_tries >= 4) throw
MaxTries == 4
\* wire size of a uint32_t (abieos::native_to_bin)
U32Size == 4
\* wire size of a checksum256
Checksum256Size == 32
\* wire size of an abieos::name
NameSize == 8

\* "local"_n, "legacy"_n and two module names, as little-endian uint64
LocalName == <<0, 0, 0, 0, 128, 104, 16, 141>>
LegacyName == <<0, 0, 0, 0, 120, 100, 152, 138>>
RemoteName == <<0, 0, 0, 0, 168, 76, 165, 186>>
ModuleA == <<0, 0, 0, 0, 0, 0, 0, 48>>
ModuleB == <<0, 0, 0, 0, 0, 0, 0, 56>>
ModuleC == <<0, 0, 0, 0, 0, 0, 0, 64>>

StatusSize == 3 * U32Size + 2 * Checksum256Size
MemSize == StatusSize + MemSlack

Min(a, b) == IF a < b THEN a ELSE b

(***************************************************************************)
(* abieos wire format.                                                     *)
(***************************************************************************)
RECURSIVE push_varuint32(_)
push_varuint32(v) ==
    IF v < 128 THEN <<v>> ELSE <<128 + (v % 128)>> \o push_varuint32(v \div 128)

\* read_varuint32: [ok, value, rest]; fails when the buffer ends inside the number
RECURSIVE read_varuint32_from(_, _, _)
read_varuint32_from(buf, shift, acc) ==
    IF Len(buf) = 0 THEN [ok |-> FALSE, value |-> 0, rest |-> buf]
    ELSE LET b == Head(buf)
             v == acc + (b % 128) * shift
         IN IF b >= 128 /\ shift < 128 * 128 * 128 * 128
            THEN read_varuint32_from(Tail(buf), shift * 128, v)
            ELSE [ok |-> b < 128, value |-> v, rest |-> Tail(buf)]

read_varuint32(buf) == read_varuint32_from(buf, 1, 0)

\* little-endian fixed-width integer
RECURSIVE fixed_to_bin(_, _)
fixed_to_bin(v, n) ==
    IF n = 0 THEN <<>> ELSE <<v % 256>> \o fixed_to_bin(v \div 256, n - 1)

uint32_to_bin(v) == fixed_to_bin(v, U32Size)

\* a block id d as the 32 raw bytes of its checksum256
checksum256_to_bin(d) == <<d>> \o [i \in 1..(Checksum256Size - 1) |-> 0]

\* std::string and std::vector<char>: varuint32 length, then the bytes
bytes_to_bin(bytes) == push_varuint32(Len(bytes)) \o bytes

\* bin_to_native<input_buffer>: a length-prefixed sub-buffer
read_input_buffer(buf) ==
    LET n == read_varuint32(buf)
    IN IF ~n.ok \/ n.value > Len(n.rest)
       THEN [ok |-> FALSE, value |-> <<>>, rest |-> buf]
       ELSE [ok |-> TRUE, value |-> SubSeq(n.rest, 1, n.value),
             rest |-> SubSeq(n.rest, n.value + 1, Len(n.rest))]

\* bin_to_native<name>: 8 raw bytes
read_name(buf) ==
    IF Len(buf) < NameSize
    THEN [ok |-> FALSE, value |-> <<>>, rest |-> buf]
    ELSE [ok |-> TRUE, value |-> SubSeq(buf, 1, NameSize),
          rest |-> SubSeq(buf, NameSize + 1, Len(buf))]

(***************************************************************************)
(* Requests the transport hands to query().                                *)
(***************************************************************************)
SubRequest(ns, short_name, payload) == bytes_to_bin(ns \o short_name \o payload)

RECURSIVE Concat(_)
Concat(ss) == IF Len(ss) = 0 THEN <<>> ELSE Head(ss) \o Concat(Tail(ss))

Request(subs) == push_varuint32(Len(subs)) \o Concat(subs)

QueryRequests ==
    { Request(<<>>),
      Request(<<SubRequest(RemoteName, ModuleA, <<5>>)>>),
      Request(<<SubRequest(LocalName, ModuleA, <<5>>), SubRequest(LocalName, ModuleB, <<6, 7>>)>>),
      Request(<<SubRequest(LocalName, ModuleA, <<>>), SubRequest(RemoteName, ModuleB, <<5>>)>>),
      Request(<<SubRequest(LocalName, ModuleC, <<5>>)>>),
      Request(<<>>) \o <<5>>,
      <<1, 3, 0, 0>> }

\* threads: shared->console, and the reply an earlier request left in thread_state.reply
Threads == {[console |-> FALSE, reply |-> <<>>], [console |-> TRUE, reply |-> <<7>>]}

LegacyTargets == {<<47>>}
LegacyRequests == {<<5>>}

(***************************************************************************)
(* State.                                                                  *)
(***************************************************************************)
VARIABLES
    db,            \* the history database: block ids by height, irreversible
    sessions,      \* query sessions currently open on the database
    thread_state,  \* wasm_ql::thread_state
    pc,            \* position of the thread
    fn,            \* entry point being served: "query" or "legacy_query"
    request,       \* query(): the request argument
    result,        \* query(): the local staging vector
    request_bin,   \* query(): the unread rest of the request
    num_requests,  \* query(): the decoded sub-request count
    request_index, \* query(): loop index
    num_tries,     \* retry_loop(): fork retries so far
    guest,         \* the running guest: export, module, linear memory, callbacks
    outcome,       \* what the entry point handed to its caller
    attempts,      \* sessions opened for the current request
    invoked,       \* run_query() calls made in the current attempt
    captured,      \* the session of the current attempt, what its get_fill_status returned
                   \* and whether that differs from the attempt before
    key_call,      \* a call of increment_key: the key before, the key after, the result
    passed,        \* the fork checks the current attempt passed: session, sub-request,
                   \* module run, what the module wrote with set_output_data,
                   \* thread_state.reply at the check
    other          \* a second thread serving legacy_query: its own thread_state,
                   \* its position, its retry_loop locals and what it handed back

callVars == <<fn, request, result, request_bin, num_requests, request_index, num_tries>>
ghostVars == <<attempts, invoked, captured, passed>>
keyVars == <<key_call>>
threadVars == <<db, sessions, thread_state, pc, fn, request, result, request_bin,
                num_requests, request_index, num_tries, guest, outcome, attempts,
                invoked, captured, passed>>
otherVars == <<other>>
\* the state of the first thread and the database it reads
oneVars == <<db, thread_state, pc, fn, request, result, request_bin, num_requests,
             request_index, num_tries, guest, outcome, attempts, invoked, captured, passed>>
vars == <<threadVars, keyVars, otherVars>>

Ids == {1, 2}
\* get_block_id() found no block at that height
Absent == 0

NoOutput == [written |-> FALSE, bytes |-> <<>>]
NoReturn == [type |-> "none", value |-> 0]

\* export: the export being run; memory: the linear memory of the backend (thread_state.wa);
\* frames: the host calls waiting for their cb_alloc callback to return;
\* ret: what the last cb_alloc callback returned; output: the last set_output_data;
\* oob: the host touched bytes outside the linear memory; console: what print_range
\* last wrote to std::cerr; message: the bytes [msg, msg + msg_len) of a failed
\* eosio_assert_message; query: the query_database call in progress: the guest's
\* range and what was handed to which session; earlier: the set_output_data call
\* before the last one of this invocation
NoQuery == [called |-> FALSE, begin |-> 0, end |-> 0, request |-> <<>>, session |-> 0,
            max_block |-> 0]
NoGuest == [export |-> "none", short_name |-> <<>>, steps |-> 0, memory |-> <<>>,
            frames |-> <<>>, ret |-> NoReturn, output |-> NoOutput, oob |-> FALSE,
            console |-> <<>>, message |-> <<>>, query |-> NoQuery, earlier |-> NoOutput]

\* run_query() was left: the backend is gone
Left(g) == [NoGuest EXCEPT !.short_name = g.short_name, !.output = g.output]
\* run_query() was left by an exception
Unwound(g) == [NoGuest EXCEPT !.memory = g.memory, !.console = g.console]
NoOutcome == [kind |-> "none", what |-> "", bytes |-> <<>>]

(***************************************************************************)
(* The database and its query sessions (state_history database interface). *)
(***************************************************************************)
\* the head block is still reversible
ValidDb(d) ==
    /\ Len(d.ids) <= MaxHead
    /\ d.irreversible < Len(d.ids) \/ d.irreversible = 0

Dbs == { d \in [ids : UNION { [1..n -> Ids] : n \in 0..MaxHead }, irreversible : 0..MaxHead] :
           ValidDb(d) }

get_fill_status(session) ==
    LET head == Len(db.ids)
    IN [head |-> head,
        head_id |-> IF head = 0 THEN 0 ELSE db.ids[head],
        irreversible |-> db.irreversible,
        irreversible_id |-> IF db.irreversible = 0 THEN 0 ELSE db.ids[db.irreversible],
        first |-> IF db.irreversible = 0 THEN 0 ELSE 1]

get_block_id(session, block_num) ==
    IF block_num \in 1..Len(db.ids) THEN db.ids[block_num] ELSE Absent

\* the reply of a range query: one row per block up to effective_max_block;
\* an empty request asks for no rows
RECURSIVE BlockRows(_, _)
BlockRows(from, to) ==
    IF from > to THEN <<>> ELSE bytes_to_bin(<<db.ids[from]>>) \o BlockRows(from + 1, to)

session_query_database(session, req, effective_max_block) ==
    LET n == IF Len(req) = 0 THEN 0 ELSE Min(effective_max_block, Len(db.ids))
    IN push_varuint32(n) \o BlockRows(1, n)

\* databases whose chain is one block longer
DeepDbs ==
    { d \in [ids : UNION { [1..n -> Ids] : n \in 0..(MaxHead + 1) },
              irreversible : 0..(MaxHead + 1)] :
        d.irreversible < Len(d.ids) \/ d.irreversible = 0 }

\* db may become d: blocks up to irreversible stay
Follows(d) ==
    /\ d # db
    /\ d.irreversible >= db.irreversible
    /\ Len(d.ids) >= db.irreversible
    /\ \A i \in 1..db.irreversible : d.ids[i] = db.ids[i]

\* while a request is served the chain advances, or blocks above irreversible are
\* replaced or popped
Ingest ==
    /\ pc \notin {"idle", "returned", "threw", "crashed"}
    /\ \E d \in Dbs :
        /\ Follows(d)
        /\ db' = d
    /\ UNCHANGED <<sessions, thread_state, pc, guest, outcome>>
    /\ UNCHANGED callVars
    /\ UNCHANGED ghostVars
    /\ UNCHANGED keyVars
    /\ UNCHANGED otherVars

\* the same over the longer chain
IngestDeep ==
    /\ pc \notin {"idle", "returned", "threw", "crashed"}
    /\ \E d \in DeepDbs :
        /\ Follows(d)
        /\ db' = d
    /\ UNCHANGED <<sessions, thread_state, pc, guest, outcome>>
    /\ UNCHANGED callVars
    /\ UNCHANGED ghostVars
    /\ UNCHANGED keyVars
    /\ UNCHANGED otherVars

(***************************************************************************)
(* Helpers of the driver.                                                  *)
(***************************************************************************)
\* fill_context_data writing the irreversible block before the head
fill_context_data_irreversible_first(fill_status) ==
    uint32_to_bin(fill_status.irreversible)
        \o checksum256_to_bin(fill_status.irreversible_id)
        \o uint32_to_bin(fill_status.head)
        \o checksum256_to_bin(fill_status.head_id)
        \o uint32_to_bin(fill_status.first)

fill_context_data(fill_status) ==
    uint32_to_bin(fill_status.head)
        \o checksum256_to_bin(fill_status.head_id)
        \o uint32_to_bin(fill_status.irreversible)
        \o checksum256_to_bin(fill_status.irreversible_id)
        \o uint32_to_bin(fill_status.first)

\* did_fork without the test of lines 98-101: a missing block counts as no fork
did_fork_ignoring_absent(ts) ==
    LET id == get_block_id(ts.query_session, ts.fill_status.head)
    IN id # Absent /\ id # ts.fill_status.head_id

\* did_fork comparing with fill_status.irreversible_id instead of head_id
did_fork_against_irreversible(ts) ==
    LET id == get_block_id(ts.query_session, ts.fill_status.head)
    IN id = Absent \/ id # ts.fill_status.irreversible_id

did_fork(ts) ==
    LET id == get_block_id(ts.query_session, ts.fill_status.head)
    IN IF id = Absent THEN TRUE
       ELSE IF id # ts.fill_status.head_id THEN TRUE
       ELSE FALSE

ZeroMemory == [i \in 1..MemSize |-> 0]

\* run_query() up to the call of the export "initialize"; backend.initialize
\* hands the guest a zeroed linear memory
run_query(short_name) ==
    [NoGuest EXCEPT !.export = "initialize", !.short_name = short_name, !.memory = ZeroMemory]

\* what() of a std::runtime_error built from a std::string: the C string, which
\* ends at the first zero byte
RECURSIVE c_str(_)
c_str(bytes) ==
    IF Len(bytes) = 0 \/ Head(bytes) = 0 THEN <<>> ELSE <<Head(bytes)>> \o c_str(Tail(bytes))

\* std::runtime_error(message) with the message bytes the guest supplied
ThrowMessage(ts, message) ==
    /\ thread_state' = [ts EXCEPT !.query_session = 0]
    /\ sessions' = sessions \ {ts.query_session}
    /\ pc' = "threw"
    /\ outcome' = [kind |-> "error", what |-> "guest message", bytes |-> c_str(message)]
    /\ guest' = [Unwound(guest) EXCEPT !.message = message]

\* retry_loop catching the exception and looping instead of letting it leave
ThrowAndRetry(ts, what) ==
    /\ thread_state' = [ts EXCEPT !.query_session = 0]
    /\ sessions' = sessions \ {ts.query_session}
    /\ pc' = "retry_loop"
    /\ outcome' = outcome
    /\ guest' = Unwound(guest)

\* an exception leaves retry_loop: the scoped exit resets the session
Throw(ts, what) ==
    /\ thread_state' = [ts EXCEPT !.query_session = 0]
    /\ sessions' = sessions \ {ts.query_session}
    /\ pc' = "threw"
    /\ outcome' = [kind |-> "error", what |-> what, bytes |-> <<>>]
    /\ guest' = Unwound(guest)

(***************************************************************************)
(* increment_key (eosio/database.hpp). A key word holds 0..KeyMax; KeyMax    *)
(* stands for the all-ones value of the word's type.                       *)
(***************************************************************************)
\* increment_key(uint8_t& ... uint128_t&, name&): return !++key
increment_key_word(v) ==
    LET next == (v + 1) % (KeyMax + 1)
    IN [value |-> next, wrapped |-> next = 0]

\* increment_key(checksum256&) starting with data()[0]
increment_key_checksum256_high_first(c) ==
    LET hi == increment_key_word(c[1])
    IN IF ~hi.wrapped
       THEN [value |-> <<hi.value, c[2]>>, wrapped |-> FALSE]
       ELSE LET lo == increment_key_word(c[2])
            IN [value |-> <<hi.value, lo.value>>, wrapped |-> lo.wrapped]

\* increment_key(checksum256&): increment_key(data()[1]) && increment_key(data()[0]);
\* c is <<data()[0], data()[1]>>
increment_key_checksum256(c) ==
    LET lo == increment_key_word(c[2])
    IN IF ~lo.wrapped
       THEN [value |-> <<c[1], lo.value>>, wrapped |-> FALSE]
       ELSE LET hi == increment_key_word(c[1])
            IN [value |-> <<hi.value, lo.value>>, wrapped |-> hi.wrapped]

\* the fields in the order the && chain of lines 250-255 increments them
CarryOrder ==
    <<"action_index", "transaction_id", "block_index", "account", "receipt_receiver", "name">>

\* the && chain from field fields[1] on: the next field is incremented only when
\* this one wrapped
RECURSIVE increment_key_from(_, _)
increment_key_from(key, fields) ==
    IF Len(fields) = 0 THEN [key |-> key, wrapped |-> TRUE]
    ELSE LET f == Head(fields)
             r == IF f = "transaction_id" THEN increment_key_checksum256(key[f])
                  ELSE increment_key_word(key[f])
             incremented == [key EXCEPT ![f] = r.value]
         IN IF r.wrapped THEN increment_key_from(incremented, Tail(fields))
            ELSE [key |-> incremented, wrapped |-> FALSE]

\* the chain started at the first field instead of the last
increment_key_left_to_right(key) ==
    increment_key_from(key, <<"name", "receipt_receiver", "account", "block_index",
                              "transaction_id", "action_index">>)

\* increment_key(query_action_trace_executed_range_name_receiver_account_block_trans_action::key&)
increment_key(key) == increment_key_from(key, CarryOrder)

KeyWords == 0..KeyMax
Keys == [name : KeyWords, receipt_receiver : KeyWords, account : KeyWords,
         block_index : KeyWords, transaction_id : KeyWords \X KeyWords,
         action_index : KeyWords]
ZeroKey == [name |-> 0, receipt_receiver |-> 0, account |-> 0, block_index |-> 0,
            transaction_id |-> <<0, 0>>, action_index |-> 0]
NoKeyCall == [original |-> ZeroKey, key |-> ZeroKey, wrapped |-> FALSE, done |-> FALSE]

\* a caller increments its key in place
IncrementKey ==
    /\ ~key_call.done
    /\ LET r == increment_key(key_call.key)
       IN key_call' = [key_call EXCEPT !.key = r.key, !.wrapped = r.wrapped, !.done = TRUE]
    /\ UNCHANGED threadVars
    /\ UNCHANGED otherVars

(***************************************************************************)
(* Initial state: a constructed thread_state, any database.                *)
(***************************************************************************)
InitThreadOn(dbs) ==
    /\ db \in dbs
    /\ sessions = {}
    /\ \E thread \in Threads :
          thread_state = [query_session |-> 0,
                          fill_status |-> [head |-> 0, head_id |-> 0, irreversible |-> 0,
                                           irreversible_id |-> 0, first |-> 0],
                          database_status |-> <<>>,
                          request |-> <<>>,
                          reply |-> thread.reply,
                          console |-> thread.console]
    /\ pc = "idle"
    /\ fn = "none"
    /\ request = <<>>
    /\ result = <<>>
    /\ request_bin = <<>>
    /\ num_requests = 0
    /\ request_index = 0
    /\ num_tries = 0
    /\ guest = NoGuest
    /\ outcome = NoOutcome
    /\ attempts = 0
    /\ invoked = 0
    /\ captured = [session |-> 0, head |-> 0, head_id |-> 0, irreversible |-> 0,
                   irreversible_id |-> 0, first |-> 0, changed |-> FALSE]
    /\ passed = <<>>

InitThread == InitThreadOn(Dbs)

\* the second thread: a constructed thread_state, no request yet
NoOther ==
    [pc |-> "idle",
     thread_state |-> [query_session |-> 0,
                       fill_status |-> [head |-> 0, head_id |-> 0, irreversible |-> 0,
                                        irreversible_id |-> 0, first |-> 0],
                       database_status |-> <<>>,
                       request |-> <<>>,
                       reply |-> <<>>,
                       console |-> FALSE],
     num_tries |-> 0,
     attempts |-> 0,
     outcome |-> NoOutcome]

Init ==
    /\ InitThread
    /\ key_call = NoKeyCall
    /\ other = NoOther

\* the longer chain
InitLegacy ==
    /\ InitThreadOn(DeepDbs)
    /\ key_call = NoKeyCall
    /\ other = NoOther

\* no request is served; a caller holds any key
InitKey ==
    /\ InitThread
    /\ key_call \in {[NoKeyCall EXCEPT !.original = k, !.key = k] : k \in Keys}
    /\ other = NoOther

(***************************************************************************)
(* query() and legacy_query(): entry.                                      *)
(***************************************************************************)
\* query(thread_state, request), up to the call of retry_loop
StartQuery(r) ==
    /\ pc = "idle"
    /\ fn' = "query"
    /\ request' = r
    /\ result' = <<>>
    /\ request_bin' = <<>>
    /\ num_requests' = 0
    /\ request_index' = 0
    /\ num_tries' = 0
    /\ pc' = "retry_loop"
    /\ outcome' = NoOutcome
    /\ UNCHANGED ghostVars
    /\ UNCHANGED <<db, sessions, thread_state, guest>>
    /\ UNCHANGED keyVars
    /\ UNCHANGED otherVars

\* legacy_query(thread_state, target, request), up to the call of retry_loop
StartLegacy(target, r) ==
    /\ pc = "idle"
    /\ fn' = "legacy_query"
    /\ request' = r
    /\ thread_state' = [thread_state EXCEPT !.request = bytes_to_bin(target) \o bytes_to_bin(r)]
    /\ result' = <<>>
    /\ request_bin' = <<>>
    /\ num_requests' = 0
    /\ request_index' = 0
    /\ num_tries' = 0
    /\ pc' = "retry_loop"
    /\ outcome' = NoOutcome
    /\ UNCHANGED ghostVars
    /\ UNCHANGED <<db, sessions, guest>>
    /\ UNCHANGED keyVars
    /\ UNCHANGED otherVars

(***************************************************************************)
(* retry_loop().                                                           *)
(***************************************************************************)
\* retry_loop without the test of lines 116-117
OpenSessionUnchecked ==
    /\ pc = "retry_loop"
    /\ attempts' = attempts + 1
    /\ invoked' = 0
    /\ passed' = <<>>
    /\ captured' = [session |-> attempts + 1, head |-> Len(db.ids),
                    head_id |-> IF Len(db.ids) = 0 THEN 0 ELSE db.ids[Len(db.ids)],
                    irreversible |-> db.irreversible,
                    irreversible_id |-> IF db.irreversible = 0 THEN 0
                                        ELSE db.ids[db.irreversible],
                    first |-> IF db.irreversible = 0 THEN 0 ELSE 1,
                    changed |-> thread_state.fill_status # get_fill_status(attempts + 1)]
    /\ LET session == attempts + 1
           fill_status == get_fill_status(session)
       IN /\ thread_state' = [thread_state EXCEPT
                                 !.query_session = session,
                                 !.fill_status = fill_status,
                                 !.database_status = fill_context_data(fill_status)]
          /\ sessions' = sessions \cup {session}
          /\ pc' = "f"
          /\ UNCHANGED <<guest, outcome>>
    /\ UNCHANGED db
    /\ UNCHANGED callVars
    /\ UNCHANGED keyVars
    /\ UNCHANGED otherVars

\* retry_loop reading the fill status from a temporary session that is gone by
\* the time f() runs: thread_state.query_session stays empty
OpenSessionDropped ==
    /\ pc = "retry_loop"
    /\ attempts' = attempts + 1
    /\ invoked' = 0
    /\ passed' = <<>>
    /\ captured' = [session |-> attempts + 1, head |-> Len(db.ids),
                    head_id |-> IF Len(db.ids) = 0 THEN 0 ELSE db.ids[Len(db.ids)],
                    irreversible |-> db.irreversible,
                    irreversible_id |-> IF db.irreversible = 0 THEN 0
                                        ELSE db.ids[db.irreversible],
                    first |-> IF db.irreversible = 0 THEN 0 ELSE 1,
                    changed |-> thread_state.fill_status # get_fill_status(attempts + 1)]
    /\ LET session == attempts + 1
           fill_status == get_fill_status(session)
           opened == [thread_state EXCEPT !.query_session = 0,
                                          !.fill_status = fill_status]
       IN IF fill_status.head = 0
          THEN Throw(opened, "database is empty")
          ELSE /\ thread_state' = [opened EXCEPT
                                      !.database_status = fill_context_data(fill_status)]
               /\ sessions' = sessions
               /\ pc' = "f"
               /\ UNCHANGED <<guest, outcome>>
    /\ UNCHANGED db
    /\ UNCHANGED callVars
    /\ UNCHANGED keyVars
    /\ UNCHANGED otherVars

\* one pass of the loop up to the call f(): create the session, read the fill status
OpenSession ==
    /\ pc = "retry_loop"
    /\ attempts' = attempts + 1
    /\ invoked' = 0
    /\ passed' = <<>>
    /\ captured' = [session |-> attempts + 1, head |-> Len(db.ids),
                    head_id |-> IF Len(db.ids) = 0 THEN 0 ELSE db.ids[Len(db.ids)],
                    irreversible |-> db.irreversible,
                    irreversible_id |-> IF db.irreversible = 0 THEN 0
                                        ELSE db.ids[db.irreversible],
                    first |-> IF db.irreversible = 0 THEN 0 ELSE 1,
                    changed |-> thread_state.fill_status # get_fill_status(attempts + 1)]
    /\ LET session == attempts + 1
           fill_status == get_fill_status(session)
           opened == [thread_state EXCEPT !.query_session = session,
                                          !.fill_status = fill_status]
       IN IF fill_status.head = 0
          THEN Throw(opened, "database is empty")
          ELSE /\ thread_state' = [opened EXCEPT
                                      !.database_status = fill_context_data(fill_status)]
               /\ sessions' = sessions \cup {session}
               /\ pc' = "f"
               /\ UNCHANGED <<guest, outcome>>
    /\ UNCHANGED db
    /\ UNCHANGED callVars
    /\ UNCHANGED keyVars
    /\ UNCHANGED otherVars

\* retry_loop looping without counting the try
RetryUncounted ==
    /\ num_tries' = num_tries
    /\ thread_state' = [thread_state EXCEPT !.query_session = 0]
    /\ sessions' = sessions \ {thread_state.query_session}
    /\ pc' = "retry_loop"
    /\ guest' = NoGuest
    /\ UNCHANGED outcome

\* retry_loop with num_tries++ >= 4 in place of ++num_tries >= 4
RetryPostIncrement ==
    /\ num_tries' = num_tries + 1
    /\ IF num_tries >= MaxTries
       THEN Throw(thread_state, "too many fork events during request")
       ELSE /\ thread_state' = [thread_state EXCEPT !.query_session = 0]
            /\ sessions' = sessions \ {thread_state.query_session}
            /\ pc' = "retry_loop"
            /\ guest' = NoGuest
            /\ UNCHANGED outcome

\* retry_loop with the scoped exit declared outside the while loop: the session
\* is reset only when retry_loop is left
RetryHoldingSession ==
    /\ num_tries' = num_tries + 1
    /\ IF num_tries + 1 >= MaxTries
       THEN Throw(thread_state, "too many fork events during request")
       ELSE /\ pc' = "retry_loop"
            /\ guest' = NoGuest
            /\ UNCHANGED <<thread_state, sessions, outcome>>

\* f() returned false: count the try, release the session, loop or give up
Retry ==
    /\ num_tries' = num_tries + 1
    /\ IF num_tries + 1 >= MaxTries
       THEN Throw(thread_state, "too many fork events during request")
       ELSE /\ thread_state' = [thread_state EXCEPT !.query_session = 0]
            /\ sessions' = sessions \ {thread_state.query_session}
            /\ pc' = "retry_loop"
            /\ guest' = NoGuest
            /\ UNCHANGED outcome

\* f() returned true: retry_loop returns, the scoped exit releases the session
Return(bytes) ==
    /\ thread_state' = [thread_state EXCEPT !.query_session = 0]
    /\ sessions' = sessions \ {thread_state.query_session}
    /\ pc' = "returned"
    /\ outcome' = [kind |-> "reply", what |-> "", bytes |-> bytes]
    /\ guest' = NoGuest

(***************************************************************************)
(* The lambdas of query() and legacy_query().                              *)
(***************************************************************************)
\* the lambda of query() without result.clear() (line 144)
QueryBeginKeepingResult ==
    /\ pc = "f"
    /\ fn = "query"
    /\ LET n == read_varuint32(request)
       IN IF ~n.ok
          THEN /\ Throw(thread_state, "read past end")
               /\ UNCHANGED <<request_bin, num_requests, result, request_index>>
          ELSE /\ request_bin' = n.rest
               /\ num_requests' = n.value
               /\ result' = result \o push_varuint32(n.value)
               /\ request_index' = 0
               /\ pc' = "for"
               /\ UNCHANGED <<thread_state, sessions, guest, outcome>>
    /\ UNCHANGED <<db, fn, request, num_tries>>
    /\ UNCHANGED ghostVars
    /\ UNCHANGED keyVars
    /\ UNCHANGED otherVars

\* query(): the lambda up to the for loop
QueryBegin ==
    /\ pc = "f"
    /\ fn = "query"
    /\ LET n == read_varuint32(request)
       IN IF ~n.ok
          THEN /\ Throw(thread_state, "read past end")
               /\ UNCHANGED <<request_bin, num_requests, result, request_index>>
          ELSE /\ request_bin' = n.rest
               /\ num_requests' = n.value
               /\ result' = push_varuint32(n.value)
               /\ request_index' = 0
               /\ pc' = "for"
               /\ UNCHANGED <<thread_state, sessions, guest, outcome>>
    /\ UNCHANGED <<db, fn, request, num_tries>>
    /\ UNCHANGED ghostVars
    /\ UNCHANGED keyVars
    /\ UNCHANGED otherVars

\* query(): every namespace accepted
known_namespace_any(ns_name) == TRUE

\* query(): ns_name != "local"_n throws
known_namespace(ns_name) == ns_name = LocalName

\* query() with request_index <= num_requests as the loop condition
QueryNextInclusive ==
    /\ pc = "for"
    /\ IF request_index <= num_requests
       THEN LET buf == read_input_buffer(request_bin)
                ns_name == read_name(buf.value)
                short_name == read_name(ns_name.rest)
            IN IF ~buf.ok
               THEN /\ Throw(thread_state, "read past end")
                    /\ UNCHANGED request_bin
               ELSE /\ request_bin' = buf.rest
                    /\ IF ~ns_name.ok
                       THEN Throw([thread_state EXCEPT !.request = buf.value], "read past end")
                       ELSE IF ~known_namespace(ns_name.value)
                       THEN Throw([thread_state EXCEPT !.request = ns_name.rest],
                                  "unknown namespace")
                       ELSE IF ~short_name.ok
                       THEN Throw([thread_state EXCEPT !.request = ns_name.rest], "read past end")
                       ELSE /\ thread_state' = [thread_state EXCEPT !.request = short_name.rest]
                            /\ guest' = run_query(short_name.value)
                            /\ pc' = "guest"
                            /\ UNCHANGED <<sessions, outcome>>
       ELSE /\ Return(result)
            /\ UNCHANGED request_bin
    /\ invoked' = IF pc' = "guest" THEN invoked + 1 ELSE invoked
    /\ UNCHANGED <<db, fn, request, result, num_requests, request_index, num_tries>>
    /\ UNCHANGED <<attempts, captured, passed>>
    /\ UNCHANGED keyVars
    /\ UNCHANGED otherVars

\* query(): the loop condition and the body up to run_query's first export
QueryNext ==
    /\ pc = "for"
    /\ IF request_index < num_requests
       THEN LET buf == read_input_buffer(request_bin)
                ns_name == read_name(buf.value)
                short_name == read_name(ns_name.rest)
            IN IF ~buf.ok
               THEN /\ Throw(thread_state, "read past end")
                    /\ UNCHANGED request_bin
               ELSE /\ request_bin' = buf.rest
                    /\ IF ~ns_name.ok
                       THEN Throw([thread_state EXCEPT !.request = buf.value], "read past end")
                       ELSE IF ~known_namespace(ns_name.value)
                       THEN Throw([thread_state EXCEPT !.request = ns_name.rest],
                                  "unknown namespace")
                       ELSE IF ~short_name.ok
                       THEN Throw([thread_state EXCEPT !.request = ns_name.rest], "read past end")
                       ELSE /\ thread_state' = [thread_state EXCEPT !.request = short_name.rest]
                            /\ guest' = run_query(short_name.value)
                            /\ pc' = "guest"
                            /\ UNCHANGED <<sessions, outcome>>
       ELSE /\ Return(result)
            /\ UNCHANGED request_bin
    /\ invoked' = IF pc' = "guest" THEN invoked + 1 ELSE invoked
    /\ UNCHANGED <<db, fn, request, result, num_requests, request_index, num_tries>>
    /\ UNCHANGED <<attempts, captured, passed>>
    /\ UNCHANGED keyVars
    /\ UNCHANGED otherVars

\* legacy_query(): the lambda up to run_query's first export
LegacyBegin ==
    /\ pc = "f"
    /\ fn = "legacy_query"
    /\ guest' = run_query(LegacyName)
    /\ pc' = "guest"
    /\ invoked' = invoked + 1
    /\ UNCHANGED <<db, sessions, thread_state, outcome>>
    /\ UNCHANGED callVars
    /\ UNCHANGED <<attempts, captured, passed>>
    /\ UNCHANGED keyVars
    /\ UNCHANGED otherVars

\* query(): the blob appended without its length
append_reply_unframed(staged, reply) == staged \o reply

\* query(): push_varuint32(result, reply.size()); result.insert(result.end(), reply)
append_reply(staged, reply) == staged \o push_varuint32(Len(reply)) \o reply

\* the fork check after run_query and what follows it in either lambda
ForkCheck ==
    /\ pc = "did_fork"
    /\ passed' = IF captured.head \in 1..Len(db.ids) /\ db.ids[captured.head] = captured.head_id
                  THEN Append(passed, [session |-> thread_state.query_session,
                                       index |-> request_index,
                                       module |-> guest.short_name,
                                       output |-> guest.output,
                                       reply |-> thread_state.reply])
                  ELSE passed
    /\ IF did_fork(thread_state)
       THEN /\ Retry
            /\ UNCHANGED <<result, request_index>>
       ELSE IF fn = "query"
       THEN /\ result' = append_reply(result, thread_state.reply)
            /\ request_index' = request_index + 1
            /\ pc' = "for"
            /\ guest' = NoGuest
            /\ UNCHANGED <<thread_state, sessions, outcome, num_tries>>
       ELSE /\ Return(thread_state.reply)
            /\ UNCHANGED <<result, request_index, num_tries>>
    /\ UNCHANGED <<db, fn, request, request_bin, num_requests>>
    /\ UNCHANGED <<attempts, invoked, captured>>
    /\ UNCHANGED keyVars
    /\ UNCHANGED otherVars

(***************************************************************************)
(* Guest linear memory. Guest pointers are offsets from its base.          *)
(***************************************************************************)
\* values the guest stores
GuestBytes == {9}
\* what a read outside linear memory may find
OobBytes == {0, 255}
\* pointer pairs <<begin, end>> the guest passes to host calls: empty, its data,
\* begin above end, one byte past the end of linear memory
GuestRanges == {<<0, 0>>, <<0, GuestDataLen>>, <<GuestDataLen, 0>>, <<MemSize, MemSize + 1>>}
\* <<msg, msg_len>> the guest passes to eosio_assert_message
GuestMessages == {<<0, 0>>, <<0, GuestDataLen>>, <<MemSize, 1>>}
\* what the guest's cb_alloc function returns
CbOffsets == {0, MemSize - 1}
CbReturns == {[type |-> "none", value |-> 0]}
                 \cup [type : {"i32", "i64"}, value : CbOffsets]
\* function-table indices and user data the guest passes for cb_alloc
CbAllocs == {7}
CbAllocDatas == {4096}

\* no byte of [begin, end) lies outside linear memory
InMemory(begin, end) == begin = end \/ end <= MemSize

\* the bytes [begin, end); x is what lies outside linear memory
ReadRange(mem, begin, end, x) ==
    [i \in 1..(end - begin) |-> IF begin + i <= MemSize THEN mem[begin + i] ELSE x]

\* memcpy(base + begin, bytes): the part that lands in linear memory
WriteRange(mem, begin, bytes) ==
    [i \in 1..MemSize |->
        IF i > begin /\ i <= begin + Len(bytes) THEN bytes[i - begin] ELSE mem[i]]

(***************************************************************************)
(* callbacks.                                                              *)
(***************************************************************************)
\* check_bounds without the test of lines 21-22
check_bounds_untested(begin, end) == TRUE

\* TRUE iff check_bounds does not throw
check_bounds(begin, end) == ~(begin > end)

\* alloc() passing size and cb_alloc_data in the wrong order
alloc_call_swapped(cb_alloc_data, cb_alloc, size) ==
    [cb_alloc |-> cb_alloc, args |-> <<size, cb_alloc_data>>]

\* alloc(): the call of the guest function
alloc_call(cb_alloc_data, cb_alloc, size) ==
    [cb_alloc |-> cb_alloc, args |-> <<cb_alloc_data, size>>]

\* alloc(): from the value the guest function returned to the pointer
alloc_result(ret, size) ==
    IF ret.type # "i32"
    THEN [ok |-> FALSE, error |-> "cb_alloc returned incorrect type", begin |-> 0]
    ELSE IF ~check_bounds(ret.value, ret.value + size)
    THEN [ok |-> FALSE, error |-> "bad memory", begin |-> 0]
    ELSE [ok |-> TRUE, error |-> "", begin |-> ret.value]

\* the memcpy after alloc(): destination and bytes
copy_out(begin, payload, size) == [dest |-> begin, bytes |-> SubSeq(payload, 1, size)]

get_database_status_payload(ts) == ts.database_status
\* get_input_data starting one byte after request.pos
get_input_data_past_pos(ts) ==
    IF Len(ts.request) = 0 THEN <<>> ELSE Tail(ts.request)

get_input_data_payload(ts) == ts.request
\* set_output_data appending to the reply instead of assigning it
set_output_data_appending(ts, bytes) == [ts EXCEPT !.reply = ts.reply \o bytes]

set_output_data(ts, bytes) == [ts EXCEPT !.reply = bytes]
\* query_database passing the largest block number instead of the captured head
query_database_uncapped(ts) == MaxHead + 1

query_database_max_block(ts) == ts.fill_status.head

\* steps the module takes per run_query() call: ModuleC is one step longer
GuestSteps(short_name) == IF short_name = ModuleC THEN MaxGuestSteps + 1 ELSE MaxGuestSteps

GuestRunning == pc = "guest" /\ guest.steps < GuestSteps(guest.short_name)
Step(g) == [g EXCEPT !.steps = @ + 1]
Outside(g) == [g EXCEPT !.oob = TRUE]

\* the process dies on an access outside its mapped memory
Crash ==
    /\ pc' = "crashed"
    /\ outcome' = [kind |-> "crash", what |-> "", bytes |-> <<>>]
    /\ guest' = Outside(guest)
    /\ UNCHANGED <<thread_state, sessions>>

\* the host enters the guest function cb_alloc; the copy happens when it returns
EnterCallback(g, name, cb_alloc_data, cb_alloc, payload) ==
    /\ Len(guest.frames) < MaxCbDepth
    /\ guest' = [Step(g) EXCEPT !.frames =
                    Append(@, [name |-> name,
                               call |-> alloc_call(cb_alloc_data, cb_alloc, Len(payload)),
                               payload |-> payload])]

HostAbort ==
    /\ GuestRunning
    /\ Throw(thread_state, "called abort")
    /\ UNCHANGED db
    /\ UNCHANGED callVars
    /\ UNCHANGED ghostVars
    /\ UNCHANGED keyVars
    /\ UNCHANGED otherVars

HostEosioAssertMessage(test, msg, msg_len) ==
    /\ GuestRunning
    /\ IF test
       THEN /\ guest' = Step(guest)
            /\ UNCHANGED <<thread_state, sessions, pc, outcome>>
       ELSE \/ /\ InMemory(msg, msg + msg_len)
               /\ ThrowMessage(thread_state, ReadRange(guest.memory, msg, msg + msg_len, 0))
            \/ /\ ~InMemory(msg, msg + msg_len)
               /\ \/ Crash
                  \/ \E x \in OobBytes :
                        ThrowMessage(thread_state,
                                     ReadRange(guest.memory, msg, msg + msg_len, x))
    /\ UNCHANGED db
    /\ UNCHANGED callVars
    /\ UNCHANGED ghostVars
    /\ UNCHANGED keyVars
    /\ UNCHANGED otherVars

HostGetDatabaseStatus(cb_alloc_data, cb_alloc) ==
    /\ GuestRunning
    /\ EnterCallback(guest, "get_database_status", cb_alloc_data, cb_alloc,
                     get_database_status_payload(thread_state))
    /\ UNCHANGED <<db, sessions, thread_state, pc, outcome>>
    /\ UNCHANGED callVars
    /\ UNCHANGED ghostVars
    /\ UNCHANGED keyVars
    /\ UNCHANGED otherVars

HostGetInputData(cb_alloc_data, cb_alloc) ==
    /\ GuestRunning
    /\ EnterCallback(guest, "get_input_data", cb_alloc_data, cb_alloc,
                     get_input_data_payload(thread_state))
    /\ UNCHANGED <<db, sessions, thread_state, pc, outcome>>
    /\ UNCHANGED callVars
    /\ UNCHANGED ghostVars
    /\ UNCHANGED keyVars
    /\ UNCHANGED otherVars

HostSetOutputData(begin, end) ==
    /\ GuestRunning
    /\ IF ~check_bounds(begin, end)
       THEN Throw(thread_state, "bad memory")
       ELSE \/ /\ InMemory(begin, end)
               /\ thread_state' = set_output_data(thread_state,
                                      ReadRange(guest.memory, begin, end, 0))
               /\ guest' = [Step(guest) EXCEPT !.output =
                               [written |-> TRUE,
                                bytes |-> ReadRange(guest.memory, begin, end, 0)],
                               !.earlier = guest.output]
               /\ UNCHANGED <<sessions, pc, outcome>>
            \/ /\ ~InMemory(begin, end)
               /\ \/ Crash
                  \/ /\ \E x \in OobBytes :
                          /\ thread_state' = set_output_data(thread_state,
                                                 ReadRange(guest.memory, begin, end, x))
                          /\ guest' = [Step(Outside(guest)) EXCEPT !.output =
                                          [written |-> TRUE,
                                           bytes |-> ReadRange(guest.memory, begin, end, x)],
                                          !.earlier = guest.output]
                     /\ UNCHANGED <<sessions, pc, outcome>>
    /\ UNCHANGED db
    /\ UNCHANGED callVars
    /\ UNCHANGED ghostVars
    /\ UNCHANGED keyVars
    /\ UNCHANGED otherVars

\* the guest called query_database(req_begin, req_end, ...)
Asked(g, req_begin, req_end) ==
    [g EXCEPT !.query = [NoQuery EXCEPT !.begin = req_begin, !.end = req_end]]

\* query_database() up to the call of the guest function in alloc()
QueryDatabaseCall(g, req, cb_alloc_data, cb_alloc) ==
    EnterCallback([g EXCEPT !.query = [@ EXCEPT
                                          !.called = TRUE,
                                          !.request = req,
                                          !.session = thread_state.query_session,
                                          !.max_block = query_database_max_block(thread_state)]],
                  "query_database", cb_alloc_data, cb_alloc,
                  session_query_database(thread_state.query_session, req,
                                         query_database_max_block(thread_state)))

HostQueryDatabase(req_begin, req_end, cb_alloc_data, cb_alloc) ==
    /\ GuestRunning
    /\ IF ~check_bounds(req_begin, req_end)
       THEN Throw(thread_state, "bad memory")
       ELSE \/ /\ InMemory(req_begin, req_end)
               /\ QueryDatabaseCall(Asked(guest, req_begin, req_end),
                                    ReadRange(guest.memory, req_begin, req_end, 0),
                                    cb_alloc_data, cb_alloc)
               /\ UNCHANGED <<thread_state, sessions, pc, outcome>>
            \/ /\ ~InMemory(req_begin, req_end)
               /\ \/ Crash
                  \/ /\ \E x \in OobBytes :
                          QueryDatabaseCall(Outside(Asked(guest, req_begin, req_end)),
                                            ReadRange(guest.memory, req_begin, req_end, x),
                                            cb_alloc_data, cb_alloc)
                     /\ UNCHANGED <<thread_state, sessions, pc, outcome>>
    /\ UNCHANGED db
    /\ UNCHANGED callVars
    /\ UNCHANGED ghostVars
    /\ UNCHANGED keyVars
    /\ UNCHANGED otherVars

HostPrintRange(begin, end) ==
    /\ GuestRunning
    /\ IF ~check_bounds(begin, end)
       THEN Throw(thread_state, "bad memory")
       ELSE IF ~thread_state.console
       THEN /\ guest' = Step(guest)
            /\ UNCHANGED <<thread_state, sessions, pc, outcome>>
       ELSE \/ /\ InMemory(begin, end)
               /\ guest' = [Step(guest) EXCEPT
                               !.console = ReadRange(guest.memory, begin, end, 0)]
               /\ UNCHANGED <<thread_state, sessions, pc, outcome>>
            \/ /\ ~InMemory(begin, end)
               /\ \/ Crash
                  \/ /\ \E x \in OobBytes :
                          guest' = [Step(Outside(guest)) EXCEPT
                                       !.console = ReadRange(guest.memory, begin, end, x)]
                     /\ UNCHANGED <<thread_state, sessions, pc, outcome>>
    /\ UNCHANGED db
    /\ UNCHANGED callVars
    /\ UNCHANGED ghostVars
    /\ UNCHANGED keyVars
    /\ UNCHANGED otherVars

(***************************************************************************)
(* The guest: any program over its memory and the host calls.              *)
(***************************************************************************)
\* a store instruction
GuestStore(addr, value) ==
    /\ GuestRunning
    /\ guest' = [Step(guest) EXCEPT !.memory[addr + 1] = value]
    /\ UNCHANGED <<db, sessions, thread_state, pc, outcome>>
    /\ UNCHANGED callVars
    /\ UNCHANGED ghostVars
    /\ UNCHANGED keyVars
    /\ UNCHANGED otherVars

\* an interpreter fault: unreachable, division by zero, invalid opcode
GuestTrap ==
    /\ pc = "guest"
    /\ Throw(thread_state, "guest trap")
    /\ UNCHANGED db
    /\ UNCHANGED callVars
    /\ UNCHANGED ghostVars
    /\ UNCHANGED keyVars
    /\ UNCHANGED otherVars

\* an export returns: run_query() calls the next one, or returns to the lambda
\* and its backend is gone
GuestReturn ==
    /\ pc = "guest"
    /\ guest.frames = <<>>
    /\ IF guest.export = "initialize"
       THEN /\ guest' = [guest EXCEPT !.export = "run_query"]
            /\ UNCHANGED pc
       ELSE /\ guest' = Left(guest)
            /\ pc' = "did_fork"
    /\ UNCHANGED <<db, sessions, thread_state, outcome>>
    /\ UNCHANGED callVars
    /\ UNCHANGED ghostVars
    /\ UNCHANGED keyVars
    /\ UNCHANGED otherVars

\* the guest function cb_alloc returns: the rest of alloc() and the memcpy
CallbackReturn(ret) ==
    /\ pc = "guest"
    /\ guest.frames # <<>>
    /\ LET frame == guest.frames[Len(guest.frames)]
           size == Len(frame.payload)
           data == alloc_result(ret, size)
           copy == copy_out(data.begin, frame.payload, size)
           popped == [guest EXCEPT !.frames = SubSeq(@, 1, Len(@) - 1),
                                   !.ret = ret,
                                   !.query = NoQuery,
                                   !.memory = WriteRange(@, copy.dest, copy.bytes)]
       IN IF ~data.ok
          THEN Throw(thread_state, data.error)
          ELSE \/ /\ InMemory(copy.dest, copy.dest + Len(copy.bytes))
                  /\ guest' = popped
                  /\ UNCHANGED <<thread_state, sessions, pc, outcome>>
               \/ /\ ~InMemory(copy.dest, copy.dest + Len(copy.bytes))
                  /\ \/ Crash
                     \/ /\ guest' = Outside(popped)
                        /\ UNCHANGED <<thread_state, sessions, pc, outcome>>
    /\ UNCHANGED db
    /\ UNCHANGED callVars
    /\ UNCHANGED ghostVars
    /\ UNCHANGED keyVars
    /\ UNCHANGED otherVars

(***************************************************************************)
(* Specification.                                                          *)
(***************************************************************************)
Next ==
    \/ \E r \in QueryRequests : StartQuery(r)
    \/ \E target \in LegacyTargets, r \in LegacyRequests : StartLegacy(target, r)
    \/ OpenSession
    \/ QueryBegin
    \/ QueryNext
    \/ LegacyBegin
    \/ ForkCheck
    \/ HostAbort
    \/ \E test \in BOOLEAN, m \in GuestMessages : HostEosioAssertMessage(test, m[1], m[2])
    \/ \E cb_alloc_data \in CbAllocDatas, cb_alloc \in CbAllocs :
           HostGetDatabaseStatus(cb_alloc_data, cb_alloc)
    \/ \E cb_alloc_data \in CbAllocDatas, cb_alloc \in CbAllocs :
           HostGetInputData(cb_alloc_data, cb_alloc)
    \/ \E r \in GuestRanges : HostSetOutputData(r[1], r[2])
    \/ \E r \in GuestRanges, cb_alloc_data \in CbAllocDatas, cb_alloc \in CbAllocs :
           HostQueryDatabase(r[1], r[2], cb_alloc_data, cb_alloc)
    \/ \E r \in GuestRanges : HostPrintRange(r[1], r[2])
    \/ \E addr \in 0..(GuestDataLen - 1), value \in GuestBytes : GuestStore(addr, value)
    \/ GuestTrap
    \/ GuestReturn
    \/ \E ret \in CbReturns : CallbackReturn(ret)
    \/ Ingest

Spec == Init /\ [][Next]_vars

\* legacy_query() alone, over the longer chain
NextLegacy ==
    \/ \E target \in LegacyTargets, r \in LegacyRequests : StartLegacy(target, r)
    \/ OpenSession
    \/ LegacyBegin
    \/ ForkCheck
    \/ HostAbort
    \/ \E test \in BOOLEAN, m \in GuestMessages : HostEosioAssertMessage(test, m[1], m[2])
    \/ \E cb_alloc_data \in CbAllocDatas, cb_alloc \in CbAllocs :
           HostGetDatabaseStatus(cb_alloc_data, cb_alloc)
    \/ \E cb_alloc_data \in CbAllocDatas, cb_alloc \in CbAllocs :
           HostGetInputData(cb_alloc_data, cb_alloc)
    \/ \E r \in GuestRanges : HostSetOutputData(r[1], r[2])
    \/ \E r \in GuestRanges, cb_alloc_data \in CbAllocDatas, cb_alloc \in CbAllocs :
           HostQueryDatabase(r[1], r[2], cb_alloc_data, cb_alloc)
    \/ \E r \in GuestRanges : HostPrintRange(r[1], r[2])
    \/ \E addr \in 0..(GuestDataLen - 1), value \in GuestBytes : GuestStore(addr, value)
    \/ GuestTrap
    \/ GuestReturn
    \/ \E ret \in CbReturns : CallbackReturn(ret)
    \/ IngestDeep

SpecLegacy == InitLegacy /\ [][NextLegacy]_vars

(***************************************************************************)
(* A second thread serving legacy_query() with its own thread_state, while *)
(* the first serves its request on the same database.                      *)
(***************************************************************************)
OtherTargets == {<<48>>}
OtherRequests == {<<6>>}

\* the handle create_query_session() returns to the second thread: a new
\* session each time, none of the first thread's
OtherSession(o) == MaxTries + o.attempts + 1

\* an exception leaves the second thread's retry_loop
OtherThrow(o, what) ==
    [o EXCEPT !.thread_state.query_session = 0,
              !.pc = "threw",
              !.outcome = [kind |-> "error", what |-> what, bytes |-> <<>>]]

\* legacy_query(thread_state, target, request), up to the call of retry_loop
OtherStartLegacy(target, r) ==
    /\ other.pc = "idle"
    /\ pc # "idle"
    /\ other' = [other EXCEPT !.thread_state.request = bytes_to_bin(target) \o bytes_to_bin(r),
                              !.num_tries = 0,
                              !.pc = "retry_loop"]
    /\ UNCHANGED threadVars
    /\ UNCHANGED keyVars

\* one pass of retry_loop up to the call f()
OtherOpenSession ==
    /\ other.pc = "retry_loop"
    /\ LET session == OtherSession(other)
           fill_status == get_fill_status(session)
           opened == [other EXCEPT !.attempts = @ + 1,
                                   !.thread_state.query_session = session,
                                   !.thread_state.fill_status = fill_status]
       IN IF fill_status.head = 0
          THEN /\ other' = OtherThrow(opened, "database is empty")
               /\ UNCHANGED sessions
          ELSE /\ other' = [opened EXCEPT
                               !.thread_state.database_status = fill_context_data(fill_status),
                               !.pc = "guest"]
               /\ sessions' = sessions \cup {session}
    /\ UNCHANGED <<db, thread_state, pc, guest, outcome>>
    /\ UNCHANGED callVars
    /\ UNCHANGED ghostVars
    /\ UNCHANGED keyVars

\* run_query with one reply buffer for all threads: the second thread's guest
\* writes the buffer of the first
OtherRunQueryShared(wrote) ==
    /\ other.pc = "guest"
    /\ other' = [other EXCEPT !.pc = "did_fork"]
    /\ thread_state' =
           IF wrote = "input"
           THEN set_output_data(thread_state, get_input_data_payload(other.thread_state))
           ELSE IF wrote = "status"
           THEN set_output_data(thread_state, get_database_status_payload(other.thread_state))
           ELSE thread_state
    /\ UNCHANGED <<db, sessions, pc, guest, outcome>>
    /\ UNCHANGED callVars
    /\ UNCHANGED ghostVars
    /\ UNCHANGED keyVars

\* run_query(thread_state, "legacy"): the guest returns without output, or
\* after set_output_data over its copy of the input or of the database status
OtherRunQuery(wrote) ==
    /\ other.pc = "guest"
    /\ other' = [other EXCEPT
                    !.thread_state =
                        IF wrote = "input"
                        THEN set_output_data(@, get_input_data_payload(@))
                        ELSE IF wrote = "status"
                        THEN set_output_data(@, get_database_status_payload(@))
                        ELSE @,
                    !.pc = "did_fork"]
    /\ UNCHANGED threadVars
    /\ UNCHANGED keyVars

\* the fork check of the lambda and what follows it in retry_loop
OtherForkCheck ==
    /\ other.pc = "did_fork"
    /\ other' = IF did_fork(other.thread_state)
                THEN IF other.num_tries + 1 >= MaxTries
                     THEN OtherThrow([other EXCEPT !.num_tries = @ + 1],
                                     "too many fork events during request")
                     ELSE [other EXCEPT !.num_tries = @ + 1,
                                        !.thread_state.query_session = 0,
                                        !.pc = "retry_loop"]
                ELSE [other EXCEPT !.thread_state.query_session = 0,
                                   !.pc = "returned",
                                   !.outcome = [kind |-> "reply", what |-> "",
                                                bytes |-> other.thread_state.reply]]
    /\ sessions' = sessions \ {other.thread_state.query_session}
    /\ UNCHANGED <<db, thread_state, pc, guest, outcome>>
    /\ UNCHANGED callVars
    /\ UNCHANGED ghostVars
    /\ UNCHANGED keyVars

\* the first thread serving legacy_query() alone
NextOne ==
    \/ \E target \in LegacyTargets, r \in LegacyRequests : StartLegacy(target, r)
    \/ OpenSession
    \/ LegacyBegin
    \/ ForkCheck
    \/ \E cb_alloc_data \in CbAllocDatas, cb_alloc \in CbAllocs :
           HostGetInputData(cb_alloc_data, cb_alloc)
    \/ \E r \in GuestRanges : HostSetOutputData(r[1], r[2])
    \/ GuestReturn
    \/ \E ret \in CbReturns : CallbackReturn(ret)
    \/ Ingest

\* the second thread
NextOther ==
    \/ \E target \in OtherTargets, r \in OtherRequests : OtherStartLegacy(target, r)
    \/ OtherOpenSession
    \/ \E wrote \in {"nothing", "input", "status"} : OtherRunQuery(wrote)
    \/ OtherForkCheck

NextTwo == NextOne \/ NextOther

\* both threads constructed, the first with nothing left in its reply buffer
InitTwo ==
    /\ Init
    /\ thread_state.reply = <<>>
    /\ ~thread_state.console

SpecTwo == InitTwo /\ [][NextTwo]_vars

\* calls of increment_key on any key
NextKey == IncrementKey
SpecKey == InitKey /\ [][NextKey]_vars

(***************************************************************************)
(* Reading a reply the way the caller of query() does.                     *)
(***************************************************************************)
\* the length-prefixed blobs of buf, as far as they parse
RECURSIVE read_blobs(_)
read_blobs(buf) ==
    IF Len(buf) = 0 THEN [ok |-> TRUE, blobs |-> <<>>]
    ELSE LET b == read_input_buffer(buf)
         IN IF ~b.ok THEN [ok |-> FALSE, blobs |-> <<>>]
            ELSE LET more == read_blobs(b.rest)
                 IN [ok |-> more.ok, blobs |-> <<b.value>> \o more.blobs]

\* a staged or returned result of query(): the count, then the blobs
read_reply(buf) ==
    LET n == read_varuint32(buf)
        bs == read_blobs(n.rest)
    IN [ok |-> n.ok /\ bs.ok, count |-> n.value, blobs |-> bs.blobs]

Terminal == {"returned", "threw", "crashed"}

\* the sub-requests of a request, and the fields of one
RECURSIVE read_n_blobs(_, _)
read_n_blobs(buf, n) ==
    IF n = 0 THEN <<>>
    ELSE LET b == read_input_buffer(buf)
         IN IF ~b.ok THEN <<>> ELSE <<b.value>> \o read_n_blobs(b.rest, n - 1)

\* the first num_requests blobs; what follows them is not read
sub_requests(r) ==
    LET n == read_varuint32(r)
    IN IF ~n.ok THEN <<>> ELSE read_n_blobs(n.rest, n.value)
sub_namespace(sub) == SubSeq(sub, 1, NameSize)
sub_short_name(sub) == SubSeq(sub, NameSize + 1, 2 * NameSize)
sub_payload(sub) == SubSeq(sub, 2 * NameSize + 1, Len(sub))

(***************************************************************************)
(* Properties.                                                             *)
(***************************************************************************)
\* C1: a request handled by query() either returns a reply in which every
\* sub-request's guest ran and passed its fork check in one and the same
\* attempt, on the one session of that attempt, or it fails and hands no
\* bytes to the caller, whatever the ingesting process does in between.
C1_AtomicReply ==
    /\ outcome.kind = "reply" <=> pc = "returned"
    /\ pc \in {"threw", "crashed"} => outcome.kind \in {"error", "crash"}
    /\ pc \notin Terminal => outcome = NoOutcome
    /\ (fn = "query" /\ pc = "returned") =>
          /\ outcome.bytes = result
          /\ read_reply(outcome.bytes).ok
          /\ read_reply(outcome.bytes).count = num_requests
          /\ Len(read_reply(outcome.bytes).blobs) = num_requests
          /\ Len(passed) = num_requests
          /\ invoked = num_requests
          /\ \A i \in 1..Len(passed) :
                /\ passed[i].session = captured.session
                /\ passed[i].session = attempts
                /\ passed[i].index = i - 1
                /\ passed[i].module \in {ModuleA, ModuleB, ModuleC}

\* C1 witness: a two-sub-request reply returned by the second attempt
C1_Witness ==
    /\ fn = "query"
    /\ pc = "returned"
    /\ num_requests = 2
    /\ attempts = 2
    /\ Len(passed) = 2

\* C2: retry_loop opens at most 4 sessions per request; "too many fork events
\* during request" is raised exactly when the 4th attempt fails its fork
\* check, and then no reply is returned; query() and legacy_query() alike.
C2_RetryBound ==
    /\ attempts <= 4
    /\ num_tries <= 4
    /\ attempts \in {num_tries, num_tries + 1}
    /\ num_tries = 4 <=> outcome.what = "too many fork events during request"
    /\ outcome.what = "too many fork events during request" =>
          /\ attempts = 4
          /\ pc = "threw"
          /\ outcome.kind = "error"
          /\ outcome.bytes = <<>>

\* C2 witness: legacy_query() gave up after its 4th attempt
C2_Witness ==
    /\ fn = "legacy_query"
    /\ outcome.what = "too many fork events during request"
    /\ attempts = 4
    /\ num_tries = 4

\* C3: while an attempt of query() runs, what is staged holds the count and
\* exactly the blobs of sub-requests 0..request_index-1 of this attempt, each
\* run and checked on the session of this attempt; so an attempt after a fork
\* starts again at sub-request 0 with nothing staged, on a new session.
C3_RestartFromFirst ==
    (fn = "query" /\ pc \in {"for", "guest", "did_fork"}) =>
        /\ read_reply(result).ok
        /\ read_reply(result).count = num_requests
        /\ Len(read_reply(result).blobs) = request_index
        /\ Len(passed) = request_index
        /\ invoked = request_index + (IF pc = "for" THEN 0 ELSE 1)
        /\ \A i \in 1..Len(passed) : passed[i].session = attempts /\ passed[i].index = i - 1
        /\ thread_state.query_session = attempts
        /\ sessions = {attempts}
        /\ attempts = num_tries + 1

\* C3 witness: after a fork the second attempt runs the guest of sub-request 0
\* of a two-sub-request query, with only the count staged
C3_Witness ==
    /\ fn = "query"
    /\ pc = "guest"
    /\ num_requests = 2
    /\ attempts = 2
    /\ num_tries = 1
    /\ request_index = 0
    /\ result = <<2>>

\* C4: every blob of a returned reply, and the reply of legacy_query(), is what
\* the guest of that sub-request wrote with set_output_data in its own
\* invocation of the returning attempt: nothing when it wrote nothing.
C4_ReplyIsOwnOutput ==
    pc = "returned" =>
        IF fn = "query"
        THEN \A i \in 1..Len(passed) :
                i <= Len(read_reply(outcome.bytes).blobs)
                    => read_reply(outcome.bytes).blobs[i] = passed[i].output.bytes
        ELSE \A i \in 1..Len(passed) : outcome.bytes = passed[i].output.bytes

\* C5: at most one session is open, it is the one thread_state.query_session
\* holds, and none is open between attempts or once the request returned or
\* failed.
C5_SessionReleased ==
    /\ Cardinality(sessions) <= 1
    /\ sessions = IF thread_state.query_session = 0 THEN {} ELSE {thread_state.query_session}
    /\ pc \in {"idle", "retry_loop", "returned", "threw"} =>
          /\ sessions = {}
          /\ thread_state.query_session = 0
    /\ thread_state.query_session # 0 => thread_state.query_session = attempts

\* C5 witness: between the first and the second attempt no session is open
C5_Witness ==
    /\ pc = "retry_loop"
    /\ attempts = 1
    /\ num_tries = 1
    /\ sessions = {}

\* C6: an attempt whose session reports head = 0 ends the request with
\* "database is empty": no guest was run in it, the request was not read, the
\* session is released and no further attempt follows.
C6_EmptyDatabase ==
    /\ [](outcome.what = "database is empty" =>
            /\ pc = "threw"
            /\ outcome.kind = "error"
            /\ invoked = 0
            /\ passed = <<>>
            /\ captured.head = 0
            /\ sessions = {}
            /\ thread_state.query_session = 0)
    /\ [][(attempts' = attempts + 1 /\ Len(db.ids) = 0) =>
            /\ outcome'.what = "database is empty"
            /\ request_bin' = request_bin
            /\ num_requests' = num_requests
            /\ thread_state'.request = thread_state.request]_vars
    /\ [][outcome.what = "database is empty" => attempts' = attempts]_vars

\* C6 witness: the second attempt of a query found the database empty
C6_Witness ==
    /\ fn = "query"
    /\ outcome.what = "database is empty"
    /\ attempts = 2
    /\ num_tries = 1

\* C7: a new attempt is made only after a fork check that reported a fork; any
\* other failure ends the request: no session is opened after it and no reply
\* is returned.
C7_OnlyForkRetries ==
    /\ [](attempts <= num_tries + 1)
    /\ [][num_tries' # num_tries => (pc = "did_fork" /\ did_fork(thread_state))]_vars
    /\ [](outcome.kind = "error" => (pc = "threw" /\ sessions = {}))
    /\ [][pc = "threw" => (pc' = "threw" /\ attempts' = attempts /\ outcome' = outcome)]_vars

\* C7 witness: cb_alloc returned a wrong type in the second attempt
C7_Witness ==
    /\ pc = "threw"
    /\ outcome.what = "cb_alloc returned incorrect type"
    /\ attempts = 2
    /\ num_tries = 1

\* C8: the fork check is made on the open session of the current attempt and
\* reports a fork iff the block at the head that attempt captured is absent or
\* has another id than the head_id that attempt captured.
C8_ForkCheck ==
    [][(pc = "did_fork" /\ pc' # "did_fork") =>
          /\ thread_state.query_session = captured.session
          /\ captured.session = attempts
          /\ captured.session \in sessions
          /\ thread_state.fill_status.head = captured.head
          /\ thread_state.fill_status.head_id = captured.head_id
          /\ (num_tries' = num_tries + 1) <=>
                (IF captured.head \in 1..Len(db.ids)
                 THEN db.ids[captured.head] # captured.head_id
                 ELSE TRUE)]_vars

\* C8 witness: the second attempt is at its fork check and the block at its
\* captured head is gone
C8_Witness ==
    /\ pc = "did_fork"
    /\ attempts = 2
    /\ captured.head > Len(db.ids)

\* C9: the host never touches a byte outside the guest's linear memory.
C9_HostStaysInGuestMemory == ~guest.oob

\* C10: a host call that returns data enters cb_alloc once, with
\* (cb_alloc_data, size of the payload), before anything is written; when
\* cb_alloc returns an i32 the payload is written at that offset, all of it and
\* nothing else; when it returns nothing or another type the call fails with
\* "cb_alloc returned incorrect type" and guest memory is as it was.
C10_CallbackAllocation ==
    [][/\ Len(guest'.frames) > Len(guest.frames) =>
            LET frame == guest'.frames[Len(guest'.frames)]
            IN /\ Len(guest'.frames) = Len(guest.frames) + 1
               /\ frame.call.cb_alloc \in CbAllocs
               /\ frame.call.args[1] \in CbAllocDatas
               /\ frame.call.args[2] = Len(frame.payload)
               /\ frame.name = "get_database_status" =>
                     frame.payload = thread_state.database_status
               /\ frame.name = "get_input_data" => frame.payload = thread_state.request
               /\ guest'.memory = guest.memory
       /\ (Len(guest.frames) > 0 /\ pc' = "guest" /\ Len(guest'.frames) < Len(guest.frames)) =>
            LET frame == guest.frames[Len(guest.frames)]
            IN /\ Len(guest'.frames) = Len(guest.frames) - 1
               /\ guest'.ret.type = "i32"
               /\ guest'.memory = WriteRange(guest.memory, guest'.ret.value, frame.payload)
       /\ (outcome'.what = "cb_alloc returned incorrect type" /\ outcome' # outcome) =>
            /\ Len(guest.frames) > 0
            /\ pc' = "threw"
            /\ guest'.memory = guest.memory
      ]_vars

\* C10 witness: the database status was written at the offset cb_alloc returned
C10_Witness ==
    /\ pc = "guest"
    /\ guest.frames = <<>>
    /\ guest.ret.type = "i32"
    /\ guest.ret.value = 0
    /\ ~guest.oob
    /\ SubSeq(guest.memory, 1, StatusSize) = thread_state.database_status
    /\ guest.memory # ZeroMemory

C13_UnknownNamespace ==
    LET subs == sub_requests(request)
        local(i) == sub_namespace(subs[i]) = LocalName
    IN /\ (fn = "query" /\ pc \in {"guest", "did_fork"}) =>
             /\ request_index < Len(subs)
             /\ \A i \in 1..(request_index + 1) : local(i)
       /\ (fn = "query" /\ pc = "returned") => \A i \in 1..Len(subs) : local(i)
       /\ outcome.what = "unknown namespace" =>
             /\ fn = "query"
             /\ pc = "threw"
             /\ outcome.kind = "error"
             /\ outcome.bytes = <<>>
             /\ sessions = {}
             /\ thread_state.query_session = 0
             /\ attempts = num_tries + 1
             /\ request_index < Len(subs)
             /\ ~local(request_index + 1)
             /\ \A i \in 1..request_index : local(i)
             /\ invoked = request_index
             /\ Len(passed) = request_index
       /\ (fn = "query" /\ outcome.what = "read past end") =>
             \/ request_index + 1 > Len(subs)
             \/ Len(subs[request_index + 1]) < 2 * NameSize

\* C13 witness: in the second attempt the first sub-request ran and passed its
\* check, the second names another namespace
C13_Witness ==
    /\ outcome.what = "unknown namespace"
    /\ attempts = 2
    /\ request_index = 1
    /\ invoked = 1
    /\ Len(passed) = 1
    /\ sub_namespace(sub_requests(request)[2]) = RemoteName

\* C14: a failed eosio_assert_message ends the request with an error that
\* carries exactly the bytes [msg, msg + msg_len) the guest supplied, with no
\* reply and no further attempt.
C14_AssertMessageExact ==
    outcome.what = "guest message" =>
        /\ pc = "threw"
        /\ outcome.kind = "error"
        /\ sessions = {}
        /\ outcome.bytes = guest.message

\* the canonical encoding of a key: its fields in declared order, a digest as
\* its words from data()[0] on
KeyDigits(key) ==
    <<key.name, key.receipt_receiver, key.account, key.block_index,
      key.transaction_id[1], key.transaction_id[2], key.action_index>>

\* the digits read as one number
RECURSIVE KeyNumber(_)
KeyNumber(digits) ==
    IF Len(digits) = 0 THEN 0
    ELSE digits[Len(digits)] + (KeyMax + 1) * KeyNumber(SubSeq(digits, 1, Len(digits) - 1))

\* a before b in lexicographic order
LexLess(a, b) ==
    \E i \in 1..Len(a) : a[i] < b[i] /\ \A j \in 1..(i - 1) : a[j] = b[j]

\* C15: increment_key on the at.e.nra key returns true iff every field was at
\* its maximum, and the key is then all zero; otherwise the new key is the
\* immediate lexicographic successor of the old one: the last field that was
\* not at its maximum is incremented, the fields right of it are zero, the
\* fields left of it are unchanged.
C15_IncrementKeyCarry ==
    key_call.done =>
        LET old == KeyDigits(key_call.original)
            new == KeyDigits(key_call.key)
        IN /\ key_call.wrapped <=> \A i \in 1..Len(old) : old[i] = KeyMax
           /\ key_call.wrapped => \A i \in 1..Len(new) : new[i] = 0
           /\ ~key_call.wrapped =>
                 /\ LexLess(old, new)
                 /\ KeyNumber(new) = KeyNumber(old) + 1
                 /\ \E i \in 1..Len(old) :
                       /\ old[i] < KeyMax
                       /\ new[i] = old[i] + 1
                       /\ \A j \in 1..(i - 1) : new[j] = old[j]
                       /\ \A j \in (i + 1)..Len(old) : old[j] = KeyMax /\ new[j] = 0

\* C15 witness: the carry out of action_index ran through the low word of
\* transaction_id into its high word and stopped there
C15_Witness ==
    /\ key_call.done
    /\ ~key_call.wrapped
    /\ key_call.original.action_index = KeyMax
    /\ key_call.original.transaction_id = <<0, KeyMax>>
    /\ key_call.key.transaction_id = <<1, 0>>
    /\ key_call.key.action_index = 0
    /\ key_call.key.block_index = key_call.original.block_index

\* C16: a query_database call hands the bytes of the guest's range, as they
\* are, to the session the current attempt opened, with the head that attempt
\* captured as max_block; what it delivers holds no block above that head.
C16_QueryDatabaseForward ==
    [][(guest'.query.called /\ ~guest.query.called) =>
          LET q == guest'.query
              frame == guest'.frames[Len(guest'.frames)]
          IN /\ IF InMemory(q.begin, q.end)
                THEN q.request = ReadRange(guest.memory, q.begin, q.end, 0)
                ELSE \E x \in OobBytes : q.request = ReadRange(guest.memory, q.begin, q.end, x)
             /\ q.session = thread_state.query_session
             /\ q.session = captured.session
             /\ q.session = attempts
             /\ q.session \in sessions
             /\ q.max_block = captured.head
             /\ q.max_block = thread_state.fill_status.head
             /\ frame.name = "query_database"
             /\ frame.payload = session_query_database(q.session, q.request, captured.head)
             /\ read_varuint32(frame.payload).value <= captured.head
             /\ db' = db
    ]_vars

\* C16 witness: the second attempt captured head 1, the chain has grown to 2
\* blocks, and the guest's query for <<0>> delivers the one row of block 1
C16_Witness ==
    /\ pc = "guest"
    /\ attempts = 2
    /\ guest.query.called
    /\ guest.query.request = <<0>>
    /\ guest.query.session = 2
    /\ captured.head = 1
    /\ Len(db.ids) = 2
    /\ Len(guest.frames) = 1
    /\ guest.frames[1].payload = <<1, 1, db.ids[1]>>

\* C18: while the guest of one invocation runs, once it has called
\* set_output_data the reply buffer is exactly the bytes of its last call;
\* nothing of an earlier call is kept.
C18_SetOutputReplaces ==
    /\ (pc = "guest" /\ guest.output.written) => thread_state.reply = guest.output.bytes
    /\ (pc = "guest" /\ guest.earlier.written) => guest.output.written

\* C18 witness: the guest wrote one byte and then an empty output, and
\* the reply buffer is empty
C18_Witness ==
    /\ pc = "guest"
    /\ guest.earlier = [written |-> TRUE, bytes |-> <<0>>]
    /\ guest.output = [written |-> TRUE, bytes |-> <<>>]
    /\ thread_state.reply = <<>>

\* reading a database_status blob back, field by field
RECURSIVE bin_to_fixed(_)
bin_to_fixed(bytes) ==
    IF Len(bytes) = 0 THEN 0 ELSE Head(bytes) + 256 * bin_to_fixed(Tail(bytes))

bin_to_checksum256(bytes) ==
    [ok |-> \A i \in 2..Len(bytes) : bytes[i] = 0, value |-> bytes[1]]

bin_to_status(blob) ==
    LET at(from, size) == SubSeq(blob, from + 1, from + size)
        head_id == bin_to_checksum256(at(U32Size, Checksum256Size))
        irreversible_id == bin_to_checksum256(at(2 * U32Size + Checksum256Size,
                                                 Checksum256Size))
    IN [ok |-> Len(blob) = StatusSize /\ head_id.ok /\ irreversible_id.ok,
        head |-> bin_to_fixed(at(0, U32Size)),
        head_id |-> head_id.value,
        irreversible |-> bin_to_fixed(at(U32Size + Checksum256Size, U32Size)),
        irreversible_id |-> irreversible_id.value,
        first |-> bin_to_fixed(at(2 * U32Size + 2 * Checksum256Size, U32Size))]

StatusOf(c) ==
    [ok |-> TRUE, head |-> c.head, head_id |-> c.head_id, irreversible |-> c.irreversible,
     irreversible_id |-> c.irreversible_id, first |-> c.first]

\* C19: while an attempt runs f(), the database_status blob, and every blob a
\* get_database_status call is delivering, reads back as head, head_id,
\* irreversible, irreversible_id, first of the fill status this attempt read
\* from its own session, and the fork check's head and head_id are those.
C19_DatabaseStatus ==
    pc \in {"f", "for", "guest", "did_fork"} =>
        /\ captured.session = attempts
        /\ thread_state.query_session = captured.session
        /\ bin_to_status(thread_state.database_status) = StatusOf(captured)
        /\ thread_state.fill_status.head = captured.head
        /\ thread_state.fill_status.head_id = captured.head_id
        /\ \A i \in 1..Len(guest.frames) :
              guest.frames[i].name = "get_database_status" =>
                  bin_to_status(guest.frames[i].payload) = StatusOf(captured)

\* C19 witness: after a fork retry the second attempt read another status
\* than the first, with an irreversible block, and the guest asks for it
C19_Witness ==
    /\ pc = "guest"
    /\ attempts = 2
    /\ captured.changed
    /\ captured.head = 2
    /\ captured.irreversible = 1
    /\ captured.head_id # captured.irreversible_id
    /\ Len(guest.frames) = 1
    /\ guest.frames[1].name = "get_database_status"
    /\ bin_to_status(guest.frames[1].payload) = StatusOf(captured)

\* what the guest of the sub-request being served is to receive: the bytes of
\* that sub-request after namespace and short_name; for legacy_query the
\* target and the request, each length-prefixed
InputOf(r, index) == sub_payload(sub_requests(r)[index + 1])
LegacyInputs(r) == { bytes_to_bin(target) \o bytes_to_bin(r) : target \in LegacyTargets }

\* C20: while a guest runs, in whatever attempt and after however many host
\* calls, the input cursor holds and every get_input_data call delivers the
\* payload of the sub-request whose short_name names this guest (for
\* legacy_query: target and request), and of no other sub-request.
C20_InputData ==
    pc = "guest" =>
        /\ IF fn = "query"
           THEN /\ request_index + 1 \in 1..Len(sub_requests(request))
                /\ sub_short_name(sub_requests(request)[request_index + 1]) = guest.short_name
                /\ thread_state.request = InputOf(request, request_index)
           ELSE thread_state.request \in LegacyInputs(request)
        /\ \A i \in 1..Len(guest.frames) :
              guest.frames[i].name = "get_input_data" =>
                  guest.frames[i].payload = thread_state.request

\* C20 witness: in the second attempt the guest has received its input <<5>>
\* into its memory and asks for it again
C20_Witness ==
    /\ pc = "guest"
    /\ fn = "query"
    /\ attempts = 2
    /\ guest.short_name = ModuleC
    /\ guest.memory[1] = 5
    /\ Len(guest.frames) = 1
    /\ guest.frames[1].name = "get_input_data"
    /\ guest.frames[1].payload = <<5>>

\* the bytes of s
Bytes(seq) == { seq[i] : i \in 1..Len(seq) }

\* bytes only the one or only the other request carries
OneBytes == UNION { Bytes(target) \cup Bytes(r) : target \in LegacyTargets, r \in LegacyRequests }
OtherBytes == UNION { Bytes(target) \cup Bytes(r) : target \in OtherTargets, r \in OtherRequests }

\* each thread holds its own session, or none, and nothing of the other
\* request's bytes
Apart ==
    /\ sessions = ({thread_state.query_session, other.thread_state.query_session} \ {0})
    /\ thread_state.query_session # 0 =>
           thread_state.query_session # other.thread_state.query_session
    /\ thread_state.query_session \in {0, attempts}
    /\ other.thread_state.query_session \in {0, MaxTries + other.attempts}
    /\ \A buf \in {thread_state.request, thread_state.reply, thread_state.database_status,
                    outcome.bytes} : Bytes(buf) \cap OtherBytes = {}
    /\ pc = "guest" => Bytes(guest.memory) \cap OtherBytes = {}
    /\ \A buf \in {other.thread_state.request, other.thread_state.reply,
                    other.thread_state.database_status, other.outcome.bytes} :
           Bytes(buf) \cap OneBytes = {}

BadMemory ==
    /\ pc' = "threw"
    /\ outcome' = [kind |-> "error", what |-> "bad memory", bytes |-> <<>>]
    /\ thread_state' = [thread_state EXCEPT !.query_session = 0]
    /\ sessions' = sessions \ {thread_state.query_session}
    /\ guest'.frames = <<>>
    /\ ~guest'.query.called
    /\ guest'.console = guest.console
    /\ guest'.memory = guest.memory
    /\ UNCHANGED <<db, num_tries, attempts, invoked, result, passed>>

\* C21: a set_output_data, query_database or print_range call whose range
\* has begin > end fails with "bad memory" before any effect: the reply
\* buffer is as before, no query is issued and cb_alloc is not entered,
\* nothing is printed, and the request ends with that error, not retried.
C21_BadMemory ==
    [][\A r \in GuestRanges :
          r[1] > r[2] =>
             /\ HostSetOutputData(r[1], r[2]) => BadMemory
             /\ HostPrintRange(r[1], r[2]) => BadMemory
             /\ \A cb_alloc_data \in CbAllocDatas, cb_alloc \in CbAllocs :
                   HostQueryDatabase(r[1], r[2], cb_alloc_data, cb_alloc) => BadMemory
    ]_vars

\* C21 witness: a host call with begin > end has ended the first attempt of
\* a request with "bad memory"; the reply an earlier request left is still
\* in the buffer and the console, though enabled, has nothing
C21_Witness ==
    /\ pc = "threw"
    /\ outcome.what = "bad memory"
    /\ attempts = 1
    /\ num_tries = 0
    /\ thread_state.reply = <<7>>
    /\ thread_state.console
    /\ guest.console = <<>>
    /\ guest.frames = <<>>
    /\ sessions = {}

\* C22: whenever a guest runs (between run_query's first export and its
\* return, a cb_alloc callback included) the session of the current attempt
\* is held and open and the head it captured is not zero; the session a
\* query_database call used is that open session.
C22_GuestUnderSession ==
    pc = "guest" =>
        /\ guest.export \in {"initialize", "run_query"}
        /\ thread_state.query_session # 0
        /\ thread_state.query_session \in sessions
        /\ thread_state.query_session = captured.session
        /\ captured.session = attempts
        /\ thread_state.fill_status.head # 0
        /\ thread_state.fill_status.head = captured.head
        /\ guest.query.called =>
              /\ guest.query.session \in sessions
              /\ guest.query.session = thread_state.query_session
              /\ guest.query.max_block # 0

\* C22 witness: in the third attempt the guest's query_database call waits
\* in its cb_alloc callback, on the session opened for that attempt, while
\* the database has meanwhile lost all its blocks
C22_Witness ==
    /\ pc = "guest"
    /\ attempts = 3
    /\ Len(guest.frames) = 1
    /\ guest.frames[1].name = "query_database"
    /\ guest.query.called
    /\ guest.query.session = 3
    /\ sessions = {3}
    /\ thread_state.fill_status.head = 1
    /\ Len(db.ids) = 0

\* the request's count of sub-requests reads as zero
NoSubRequests(r) == read_varuint32(r).ok /\ read_varuint32(r).value = 0

\* C23: a query() request whose count is zero makes one attempt and no more:
\* on a database with a head it returns the reply holding only the count 0,
\* without running a guest or a fork check and with its one session released;
\* on an empty database it fails with "database is empty".
C23_NoSubRequests ==
    (fn = "query" /\ NoSubRequests(request)) =>
        /\ pc \notin {"guest", "did_fork", "crashed"}
        /\ guest = NoGuest
        /\ invoked = 0
        /\ passed = <<>>
        /\ num_tries = 0
        /\ attempts <= 1
        /\ pc \in {"f", "for"} => (attempts = 1 /\ sessions = {1} /\ captured.head # 0)
        /\ pc = "returned" =>
              /\ outcome = [kind |-> "reply", what |-> "", bytes |-> <<0>>]
              /\ attempts = 1
              /\ captured.head # 0
              /\ sessions = {}
              /\ thread_state.query_session = 0
        /\ pc = "threw" =>
              /\ outcome = [kind |-> "error", what |-> "database is empty", bytes |-> <<>>]
              /\ attempts = 1
              /\ captured.head = 0
              /\ sessions = {}
              /\ thread_state.query_session = 0

\* C23 witness: the request of count 0 and a trailing byte returned <<0>>
\* from its first attempt, although the head that attempt captured is no
\* longer in the database
C23_Witness ==
    /\ fn = "query"
    /\ request = <<0, 5>>
    /\ pc = "returned"
    /\ outcome.bytes = <<0>>
    /\ attempts = 1
    /\ invoked = 0
    /\ captured.head = 1
    /\ Len(db.ids) = 0
    /\ sessions = {}

====
